---- MODULE Spec2Model ----
(***************************************************************************)
(* Model of the workbench job queue (services/job_service.py), the worker  *)
(* loop (worker/runner.py) and the job routes (api/routes/jobs.py).        *)
(*                                                                         *)
(* Every JobService statement is one database statement and is one step.   *)
(* claim_job is split at the point where FOR UPDATE SKIP LOCKED has taken  *)
(* the row lock, fail_job at the point between its SELECT and its UPDATE.  *)
(* Time is a global clock in abstract units; timestamps are clock values.  *)
(* The columns payload, result, created_at and updated_at are not          *)
(* modelled: no modelled statement reads them.                             *)
(*                                                                         *)
(* Spec is the queue: jobs enqueued with create_job, whose handler         *)
(* (handle_sync_signals) is a step that returns or raises.  ExecSpec is    *)
(* the execution of attempts: jobs enqueued by create_attempt, whose       *)
(* handler (_execute_attempt) is modelled log write by log write.          *)
(***************************************************************************)
EXTENDS Integers, Sequences, FiniteSets, TLC

\* ---- bounds of the model ------------------------------------------------
NumJobs == 2
NumWorkers == 2
MaxTime == 2
MaxPriority == 1
MaxMaxRetries == 3
MaxRetryDelay == 1
MaxThreshold == 1
NumAttempts == 1
MaxMessages == 2
NumSignals == 2
MaxApiAttempts == 3
MaxQuestions == 2
MaxAgentMessages == 3
MaxCancels == 1
MaxSubmitters == 2
MaxExecutions == 2
MaxLogs == 3
MaxPolls == 2
MaxAskCalls == 2
MaxBlocks == 2
MaxToolCalls == 4
TimeoutTicks == 2

\* ---- values --------------------------------------------------------------
\* SQL NULL in a nullable integer / timestamp / worker column
NULL == -1

PENDING == "pending"
CLAIMED == "claimed"
RUNNING == "running"
COMPLETED == "completed"
FAILED == "failed"
DEAD == "dead"

SYNC_SIGNALS == "sync_signals"
RUN_ATTEMPT == "run_attempt"
RETRY_ATTEMPT == "retry_attempt"
CLEANUP == "cleanup"

\* the job types create_job is called with: one the worker polls for, one it does not
JobTypes == {SYNC_SIGNALS, CLEANUP}

\* job_types argument of claim_job; {} stands for None (no filter)
NoFilter == {}
WorkerJobTypes == {RUN_ATTEMPT, RETRY_ATTEMPT, SYNC_SIGNALS}
ClaimFilters == {WorkerJobTypes}

NoError == "null"
StaleError == "Recovered from stale worker"
HandlerError == "handler raised"

Workers == 1..NumWorkers
Priorities == 0..MaxPriority
MaxRetriesChoices == {1, MaxMaxRetries}
RetryDelays == 1..MaxRetryDelay
Thresholds == 1..MaxThreshold

\* members of the AttemptStatus enum
AttemptStatusMembers == {"PENDING", "RUNNING", "SUCCESS", "NEEDS_HUMAN", "FAILED", "NOOP"}

\* Job column defaults
DefaultPriority == 0
DefaultMaxRetries == 3

VARIABLES
    now,        \* the wall clock, datetime.now(timezone.utc)
    jobs,       \* the jobs table: a sequence of rows, a job's id is its index
    wk,         \* per worker process: position in _process_next_job and locals
    wasDead,    \* the ids of the jobs that have been DEAD at some time
    attempts,   \* the attempts table: a sequence of rows, an attempt's id is its index
    artifacts,  \* the artifacts table, in insertion order
    ex,         \* per worker process: position in _execute_attempt and locals
    clars,      \* the clarifications table: a sequence of rows
    reqs,       \* API requests between their read and their write (create_attempt,
                \* submit_clarification)
    drv,        \* one call of ClaudeCodeExecutor.execute: its locals and its client
    cancels,    \* the cancel_attempt requests made: attempt id and response
    calc,       \* one call of a function without side effects: its arguments, its value
    lk          \* db_lock of one call of execute and the two tasks that take it

vars == <<now, jobs, wk, wasDead, attempts, artifacts, ex, clars, reqs, drv, cancels, calc,
          lk>>
queue == <<jobs, wk, wasDead>>
store == <<attempts, artifacts, ex>>
side == <<cancels, calc, lk>>
desk == <<clars, reqs, drv, side>>

JobIds == DOMAIN jobs

\* ---- pure helpers --------------------------------------------------------
RECURSIVE Pow2(_)
Pow2(n) == IF n <= 0 THEN 1 ELSE 2 * Pow2(n - 1)

\* Job.__init__ defaults
NewJob(type, priority, max_retries, scheduled_for, attempt_id) ==
    [ type |-> type,
      attempt_id |-> attempt_id,
      status |-> PENDING,
      priority |-> priority,
      max_retries |-> max_retries,
      retry_count |-> 0,
      scheduled_for |-> scheduled_for,
      worker_id |-> NULL,
      claimed_at |-> NULL,
      heartbeat_at |-> NULL,
      completed_at |-> NULL,
      error |-> NoError ]

IdleWorker == [pc |-> "idle", job |-> NULL, t |-> NULL, rc |-> NULL, mx |-> NULL]

\* no _execute_attempt in progress
IdleExec == [pos |-> "none", sequence_num |-> 0, exec_seq |-> 0, msgs |-> 0,
             outcome |-> "none", dir |-> "none", cancelled |-> FALSE]

\* a row lock taken by a claim statement that has not yet committed
Locked(j) == \E w \in Workers : wk[w].pc = "claiming" /\ wk[w].job = j

\* (mutant) the WHERE clause without retry_count < max_retries
EligibleAnyRetryCount(job, at, job_types) ==
    /\ job.status = PENDING
    /\ job.scheduled_for <= at
    /\ (job_types # NoFilter => job.type \in job_types)

\* WHERE clause of the next_job CTE
Eligible(job, at, job_types) ==
    /\ job.status = PENDING
    /\ job.scheduled_for <= at
    /\ job.retry_count < job.max_retries
    /\ (job_types # NoFilter => job.type \in job_types)

\* (mutant) ORDER BY priority ASC
BeforeAscending(a, b) ==
    \/ a.priority < b.priority
    \/ a.priority = b.priority /\ a.scheduled_for <= b.scheduled_for

\* ORDER BY priority DESC, scheduled_for ASC: a is not after b
Before(a, b) ==
    \/ a.priority > b.priority
    \/ a.priority = b.priority /\ a.scheduled_for <= b.scheduled_for

\* (mutant) the SELECT without FOR UPDATE SKIP LOCKED
SelectableNoSkipLocked(j, at, job_types) ==
    Eligible(jobs[j], at, job_types)

\* FOR UPDATE SKIP LOCKED: rows locked by another transaction are passed over
Selectable(j, at, job_types) ==
    Eligible(jobs[j], at, job_types) /\ ~Locked(j)

\* LIMIT 1 of the ordered selectable rows (ties are the database's choice)
NextJobs(at, job_types) ==
    { j \in JobIds :
        /\ Selectable(j, at, job_types)
        /\ \A k \in JobIds : Selectable(k, at, job_types) => Before(jobs[j], jobs[k]) }

\* SET clause of the claim statement
ClaimedJob(job, w, at) ==
    [job EXCEPT !.status = CLAIMED, !.worker_id = w,
                !.claimed_at = at, !.heartbeat_at = at]

\* ---- Init ----------------------------------------------------------------
\* executor.py: the locals of execute and the state of its client, before a call
IdleDriver ==
    [pos |-> "idle", bidirectional |-> FALSE, client |-> "sdk", attempt_id |-> NULL,
     agent |-> "none", idx |-> 0, asks |-> 0, n |-> 0,
     query_count |-> 0, pending_continuation |-> FALSE,
     tool_call_count |-> 0, hpc |-> "none", questions_asked |-> 0, created |-> {},
     allowed |-> 0, interrupted_for_questions |-> FALSE, timed_out |-> FALSE,
     budget_exceeded |-> FALSE, result |-> "none", error_message |-> FALSE,
     final_spec |-> FALSE, success |-> FALSE, elapsed |-> 0, run |-> 0,
     rejected |-> 0]

\* executor.py: db_lock = asyncio.Lock(), free; the message loop waits for a
\* message and the permission handler has not been invoked
IdleLock ==
    [holder |-> "none", loop |-> "receive", handler |-> "none",
     sequence_num |-> 0, polls |-> 0, asks |-> 0]

\* no function call is being looked at
NoCall == [fn |-> "none"]

\* the empty database, idle workers, and the function call c to look at
Started(c) ==
    /\ now = 0
    /\ jobs = <<>>
    /\ wk = [w \in Workers |-> IdleWorker]
    /\ wasDead = {}
    /\ attempts = <<>>
    /\ artifacts = <<>>
    /\ ex = [w \in Workers |-> IdleExec]
    /\ clars = <<>>
    /\ reqs = <<>>
    /\ drv = IdleDriver
    /\ cancels = <<>>
    /\ calc = c
    /\ lk = IdleLock

Init == Started(NoCall)

\* ---- the clock -----------------------------------------------------------
Tick ==
    /\ now < MaxTime
    /\ now' = now + 1
    /\ UNCHANGED <<desk, jobs, wk, wasDead, store>>

\* ---- JobService.create_job -----------------------------------------------
CreateJob ==
    /\ Len(jobs) < NumJobs
    /\ \E type \in JobTypes, priority \in Priorities, max_retries \in MaxRetriesChoices :
          /\ jobs' = Append(jobs, NewJob(type, priority, max_retries, now, NULL))
    /\ UNCHANGED <<desk, now, wk, wasDead, store>>

\* ---- JobService.claim_job ------------------------------------------------
\* what fetchone() can give: the id of a row of next_job, or NULL (None) when it is empty
ClaimResults(at, job_types) ==
    IF NextJobs(at, job_types) = {} THEN {NULL} ELSE NextJobs(at, job_types)

\* the statement has evaluated next_job: it holds the row lock, or it found no
\* row, claim_job returns None and the worker sleeps and polls again
ClaimSelect(w) ==
    /\ wk[w].pc = "idle"
    /\ \E job_types \in ClaimFilters :
       \E j \in ClaimResults(now, job_types) :
          IF j = NULL
          THEN wk' = wk
          ELSE wk' = [wk EXCEPT ![w] = [IdleWorker EXCEPT !.pc = "claiming",
                                                           !.job = j, !.t = now]]
    /\ UNCHANGED <<desk, now, jobs, wasDead, store>>

\* the UPDATE of the locked row and the commit; the row is returned
ClaimUpdate(w) ==
    /\ wk[w].pc = "claiming"
    /\ LET j == wk[w].job IN
          /\ jobs' = [jobs EXCEPT ![j] = ClaimedJob(jobs[j], w, wk[w].t)]
    /\ wk' = [wk EXCEPT ![w].pc = "claimed"]
    /\ UNCHANGED <<desk, now, wasDead, store>>

\* ---- JobService.start_job -------------------------------------------------
StartedJob(job, at) ==
    [job EXCEPT !.status = RUNNING, !.heartbeat_at = at]

\* runner.py: start_job right after the claim; its result is not looked at
StartJob(w) ==
    /\ wk[w].pc = "claimed"
    /\ LET j == wk[w].job
           hit == jobs[j].status = CLAIMED
       IN /\ jobs' = IF hit THEN [jobs EXCEPT ![j] = StartedJob(jobs[j], now)] ELSE jobs
    /\ wk' = [wk EXCEPT ![w].pc = "running"]
    /\ UNCHANGED <<desk, now, wasDead, store>>

\* ---- runner.py: the dispatch on job.type --------------------------------------
\* handle_sync_signals is one step that returns or raises; _execute_attempt is
\* followed through its positions
SyncHandler(w) == jobs[wk[w].job].type = SYNC_SIGNALS

HandlerReturned(w) == SyncHandler(w) \/ ex[w].pos = "returned"

HandlerRaised(w) == SyncHandler(w) \/ ex[w].pos = "raised"

\* ---- JobService.complete_job ----------------------------------------------
CompletedJob(job, at) ==
    [job EXCEPT !.status = COMPLETED, !.completed_at = at]

\* runner.py: the handler returned, complete_job and commit
CompleteJob(w) ==
    /\ wk[w].pc = "running"
    /\ HandlerReturned(w)
    /\ LET j == wk[w].job
           hit == jobs[j].status \in {CLAIMED, RUNNING}
       IN /\ jobs' = IF hit THEN [jobs EXCEPT ![j] = CompletedJob(jobs[j], now)] ELSE jobs
    /\ wk' = [wk EXCEPT ![w] = IdleWorker]
    /\ ex' = [ex EXCEPT ![w] = IdleExec]
    /\ UNCHANGED <<desk, now, wasDead, attempts, artifacts>>

\* ---- JobService.fail_job --------------------------------------------------
\* (mutant) the exponent taken from the incremented retry_count
BackoffNewCount(retry_delay_seconds, retry_count) ==
    retry_delay_seconds * Pow2(retry_count + 1)

\* backoff = retry_delay_seconds * (2 ** row.retry_count)
Backoff(retry_delay_seconds, retry_count) ==
    retry_delay_seconds * Pow2(retry_count)

\* .values() of the retry branch
RetriedJob(job, error, retry_count, next_scheduled) ==
    [job EXCEPT !.status = PENDING, !.error = error, !.retry_count = retry_count,
                !.scheduled_for = next_scheduled, !.worker_id = NULL,
                !.claimed_at = NULL, !.heartbeat_at = NULL]

\* .values() of the dead branch
DeadJob(job, error, retry_count, at) ==
    [job EXCEPT !.status = DEAD, !.error = error, !.retry_count = retry_count,
                !.completed_at = at]

\* the row after fail_job's UPDATE, from the retry_count / max_retries it read at time `at`
FailedJob(job, error, retry_delay_seconds, read_rc, read_mx, at) ==
    IF job.status \notin {CLAIMED, RUNNING} THEN job
    ELSE IF read_rc + 1 < read_mx
         THEN RetriedJob(job, error, read_rc + 1, at + Backoff(retry_delay_seconds, read_rc))
         ELSE DeadJob(job, error, read_rc + 1, at)

\* runner.py: the handler raised; rollback, then fail_job takes `now` and SELECTs the row
FailRead(w) ==
    /\ wk[w].pc = "running"
    /\ HandlerRaised(w)
    /\ LET j == wk[w].job IN
          wk' = [wk EXCEPT ![w].pc = "failing", ![w].t = now,
                           ![w].rc = jobs[j].retry_count, ![w].mx = jobs[j].max_retries]
    /\ UNCHANGED <<desk, now, jobs, wasDead, store>>

\* fail_job's UPDATE and the commit
FailWrite(w) ==
    /\ wk[w].pc = "failing"
    /\ \E retry_delay_seconds \in RetryDelays :
          LET j == wk[w].job
              after == FailedJob(jobs[j], HandlerError, retry_delay_seconds,
                                 wk[w].rc, wk[w].mx, wk[w].t)
          IN /\ jobs' = [jobs EXCEPT ![j] = after]
             /\ wasDead' = IF after.status = DEAD THEN wasDead \cup {j} ELSE wasDead
    /\ wk' = [wk EXCEPT ![w] = IdleWorker]
    /\ ex' = [ex EXCEPT ![w] = IdleExec]
    /\ UNCHANGED <<desk, now, attempts, artifacts>>

\* ---- JobService.heartbeat (no caller in the worker) --------------------------
HeartbeatJob(job, at) ==
    IF job.status \in {CLAIMED, RUNNING} THEN [job EXCEPT !.heartbeat_at = at] ELSE job

\* ---- the worker process dies and is started again ------------------------
Crash(w) ==
    /\ wk[w].pc # "idle"
    /\ wk' = [wk EXCEPT ![w] = IdleWorker]
    /\ ex' = [ex EXCEPT ![w] = IdleExec]
    /\ UNCHANGED <<desk, now, jobs, wasDead, attempts, artifacts>>

\* ---- JobService.recover_stale_jobs ----------------------------------------
\* WHERE clause, threshold = now - stale_threshold_seconds
Stale(job, threshold) ==
    /\ job.status \in {CLAIMED, RUNNING}
    /\ job.heartbeat_at # NULL
    /\ job.heartbeat_at < threshold
    /\ job.retry_count < job.max_retries

\* .values()
RecoveredJob(job) ==
    [job EXCEPT !.status = PENDING, !.error = StaleError,
                !.retry_count = job.retry_count + 1, !.worker_id = NULL,
                !.claimed_at = NULL, !.heartbeat_at = NULL]

\* the rows the UPDATE matches
StaleJobs(js, threshold) == { j \in DOMAIN js : Stale(js[j], threshold) }

\* the table after recover_stale_jobs(stale_threshold_seconds) run at time `at`
RecoverAll(js, at, stale_threshold_seconds) ==
    [j \in DOMAIN js |->
        IF Stale(js[j], at - stale_threshold_seconds) THEN RecoveredJob(js[j]) ELSE js[j]]

RecoverStaleJobs ==
    /\ \E stale_threshold_seconds \in Thresholds :
          jobs' = RecoverAll(jobs, now, stale_threshold_seconds)
    /\ UNCHANGED <<desk, now, wk, wasDead, store>>

\* ---- routes/jobs.py: POST /recover-stale ----------------------------------
\* (mutant) the loop body without job.status = JobStatus.PENDING
RouteRecoveredJobSameStatus(job) ==
    [job EXCEPT !.worker_id = NULL, !.claimed_at = NULL,
                !.error = StaleError, !.retry_count = job.retry_count + 1]

\* the assignments of the loop body: heartbeat_at is left as it is
RouteRecoveredJob(job) ==
    [job EXCEPT !.status = PENDING, !.worker_id = NULL, !.claimed_at = NULL,
                !.error = StaleError, !.retry_count = job.retry_count + 1]

\* the table after the route has run with threshold_minutes at time `at`
RouteRecoverAll(js, at, threshold_minutes) ==
    [j \in DOMAIN js |->
        IF Stale(js[j], at - threshold_minutes) THEN RouteRecoveredJob(js[j]) ELSE js[j]]

RouteRecoverStale ==
    /\ \E threshold_minutes \in Thresholds :
          jobs' = RouteRecoverAll(jobs, now, threshold_minutes)
    /\ UNCHANGED <<desk, now, wk, wasDead, store>>

\* ---- routes/jobs.py: POST /{job_id}/retry ---------------------------------
\* (mutant) a reset that also gives the job its retries back
ResetJobAndRetries(job, at) ==
    [job EXCEPT !.status = PENDING, !.error = NoError, !.worker_id = NULL,
                !.claimed_at = NULL, !.heartbeat_at = NULL, !.completed_at = NULL,
                !.scheduled_for = at, !.retry_count = 0]

\* "Reset job for retry": retry_count is not among the fields reset
ResetJob(job, at) ==
    [job EXCEPT !.status = PENDING, !.error = NoError, !.worker_id = NULL,
                !.claimed_at = NULL, !.heartbeat_at = NULL, !.completed_at = NULL,
                !.scheduled_for = at]

RetryJob ==
    /\ \E j \in JobIds :
          /\ jobs[j].status \in {FAILED, DEAD}
          /\ jobs' = [jobs EXCEPT ![j] = ResetJob(jobs[j], now)]
    /\ UNCHANGED <<desk, now, wk, wasDead, store>>

\* ---- routes/attempts.py: POST / (create_attempt) ---------------------------
NewAttempt(signal_id, attempt_number) ==
    [signal_id |-> signal_id, attempt_number |-> attempt_number,
     status |-> "PENDING", started_at |-> NULL, finished_at |-> NULL,
     error_message |-> NoError]

Signals == 1..NumSignals

AttemptsOfSignal(signal_id) == { a \in DOMAIN attempts : attempts[a].signal_id = signal_id }

\* the attempt row and the job that runs it, flushed together by the route
AddAttempt(signal_id, attempt_number, job_type) ==
    /\ attempts' = Append(attempts, NewAttempt(signal_id, attempt_number))
    /\ jobs' = Append(jobs, NewJob(job_type, DefaultPriority, DefaultMaxRetries, now,
                                   Len(attempts) + 1))

\* a create_attempt request that runs alone: count query and insert in one step
CreateAttempt ==
    /\ Len(attempts) < NumAttempts
    /\ Len(jobs) < NumJobs
    /\ \E signal_id \in Signals :
          AddAttempt(signal_id, Cardinality(AttemptsOfSignal(signal_id)) + 1, RUN_ATTEMPT)
    /\ UNCHANGED <<desk, now, wk, wasDead, artifacts, ex>>

\* ---- routes/attempts.py: POST /{attempt_id}/cancel (cancel_attempt) ---------
CancelledByUser == "Cancelled by user"

\* 404 for an unknown attempt, 400 unless it is PENDING or RUNNING; then the
\* assignment of AttemptStatus.ERROR, which raises AttributeError (a 500) when
\* the enum has no such member, before anything is written
CancelResponse(attempt_id) ==
    IF attempt_id \notin DOMAIN attempts THEN "404"
    ELSE IF attempts[attempt_id].status \notin {"PENDING", "RUNNING"} THEN "400"
    ELSE IF "ERROR" \notin AttemptStatusMembers THEN "500"
    ELSE "200"

\* the attempt marked, and its pending and claimed jobs failed
CancelledJobs(attempt_id) ==
    [j \in DOMAIN jobs |->
        IF jobs[j].attempt_id = attempt_id /\ jobs[j].status \in {PENDING, CLAIMED}
        THEN [jobs[j] EXCEPT !.status = FAILED, !.error = CancelledByUser]
        ELSE jobs[j]]

\* one cancel request; cancels keeps the requests made and their responses
CancelAttempt ==
    /\ Len(cancels) < MaxCancels
    /\ \E attempt_id \in 1..NumAttempts :
          LET response == CancelResponse(attempt_id) IN
          /\ cancels' = Append(cancels, [attempt_id |-> attempt_id, response |-> response])
          /\ IF response = "200"
             THEN /\ attempts' = [attempts EXCEPT ![attempt_id].status = "ERROR",
                                                  ![attempt_id].error_message = CancelledByUser,
                                                  ![attempt_id].finished_at = now]
                  /\ jobs' = CancelledJobs(attempt_id)
             ELSE UNCHANGED <<attempts, jobs>>
    /\ UNCHANGED <<now, wk, wasDead, artifacts, ex, clars, reqs, drv, calc, lk>>

\* ---- runner.py: _execute_attempt -------------------------------------------
\* log_callback: one LOG artifact row, committed
\* (content is the "type" of the JSON entry in content_text)
LogArtifact(attempt_id, seq, is_final, content) ==
    [attempt_id |-> attempt_id, type |-> "log", sequence_num |-> seq, is_final |-> is_final,
     content |-> content]

Executing(w, pos) ==
    /\ wk[w].pc = "running"
    /\ ~SyncHandler(w)
    /\ ex[w].pos = pos

AttemptOf(w) == jobs[wk[w].job].attempt_id

\* the attempt is set RUNNING with started_at = now; sequence_num = 0
ExecBegin(w) ==
    /\ Executing(w, "none")
    /\ attempts' = [attempts EXCEPT ![AttemptOf(w)].status = "RUNNING",
                                    ![AttemptOf(w)].started_at = now]
    /\ ex' = [ex EXCEPT ![w] = [IdleExec EXCEPT !.pos = "begun"]]
    /\ UNCHANGED <<desk, now, queue, artifacts>>

\* the position after each log_event of the runner
AfterLogEvent(pos) ==
    CASE pos = "begun" -> "logged_start"          \* attempt_started
      [] pos = "logged_start" -> "logged_clone"   \* cloning_repo
      [] pos = "sandbox" -> "logged_workspace"    \* workspace_ready
      [] pos = "logged_workspace" -> "executing"  \* execution_starting
      [] pos = "prompt_saved" -> "logged_complete" \* execution_complete

\* log_event: sequence_num += 1, then log_callback(sequence_num, ..., is_final=False)
LogEvent(w) ==
    /\ \E pos \in {"begun", "logged_start", "sandbox", "logged_workspace", "prompt_saved"} :
          /\ Executing(w, pos)
          /\ ex' = [ex EXCEPT ![w].sequence_num = @ + 1, ![w].pos = AfterLogEvent(pos)]
    /\ artifacts' = Append(artifacts,
                           LogArtifact(AttemptOf(w), ex[w].sequence_num + 1, FALSE, "event"))
    /\ UNCHANGED <<desk, now, queue, attempts>>

\* shutil.rmtree(temp_dir, ignore_errors=True): the directory is gone, or an
\* error left it (or a part of it) behind and was ignored
Rmtree == {"removed", "remains"}

\* (a variant) the directory is removed after the yield, without try/finally
RemovedOnReturn(raises) == IF raises THEN {"created"} ELSE Rmtree

\* the finally clause of WorkspaceSandbox.create, whether or not an exception
\* is on its way out
SandboxExit(raises) == Rmtree

\* WorkspaceSandbox.create: mkdtemp, then the clone succeeds and the sandbox is
\* yielded, or it raises "Git clone failed" through the finally clause
SandboxCreate(w) ==
    /\ Executing(w, "logged_clone")
    /\ \E ok \in BOOLEAN, dir \in SandboxExit(TRUE) :
          ex' = [ex EXCEPT ![w].pos = IF ok THEN "sandbox" ELSE "raised",
                           ![w].dir = IF ok THEN "created" ELSE dir]
    /\ UNCHANGED <<desk, now, queue, attempts, artifacts>>

\* executor.write_log through executor_log_callback: the executor's own counter is
\* passed as seq and dropped, the runner's sequence_num is incremented and used
ExecutorLog(w, content, is_final, pos, outcome) ==
    /\ ex' = [ex EXCEPT ![w].exec_seq = @ + 1, ![w].sequence_num = @ + 1,
                        ![w].msgs = @ + 1, ![w].pos = pos, ![w].outcome = outcome]
    /\ artifacts' = Append(artifacts,
                           LogArtifact(AttemptOf(w), ex[w].sequence_num + 1, is_final, content))
    /\ UNCHANGED <<desk, now, queue, attempts>>

\* the test at the top of the message loop: "if self._cancelled" interrupts the
\* client and breaks; _cancelled is set by ClaudeCodeExecutor.cancel() alone,
\* which nothing in the worker or the API calls
LoopContinues(w) == ~ex[w].cancelled

\* the message loop logs a System, Assistant or User message
MessageLog(w) ==
    /\ Executing(w, "executing")
    /\ LoopContinues(w)
    /\ ex[w].msgs < MaxMessages
    /\ ExecutorLog(w, "message", FALSE, "executing", "none")

\* can_use_tool_handler logs waiting_for_human / human_answered
CallbackLog(w) ==
    /\ Executing(w, "executing")
    /\ ex[w].msgs < MaxMessages
    /\ ExecutorLog(w, "event", FALSE, "executing", "none")

\* the message loop logs the ResultMessage with is_final=True and breaks
ResultLog(w) ==
    /\ Executing(w, "executing")
    /\ LoopContinues(w)
    /\ \E outcome \in {"success", "error"} :
          ExecutorLog(w, "result", TRUE, "executed", outcome)

\* execute ends without a ResultMessage: asyncio.timeout fired, or the loop
\* found _cancelled set and interrupted the client
ExecTimeout(w) ==
    /\ Executing(w, "executing")
    /\ ex' = [ex EXCEPT ![w].pos = "executed",
                        ![w].outcome = IF LoopContinues(w) THEN "timed_out"
                                       ELSE "interrupted"]
    /\ UNCHANGED <<desk, now, queue, attempts, artifacts>>

\* sequence_num += 1, then the prompt artifact with sequence_num=0
SavePrompt(w) ==
    /\ Executing(w, "executed")
    /\ ex' = [ex EXCEPT ![w].sequence_num = @ + 1, ![w].pos = "prompt_saved"]
    /\ artifacts' = Append(artifacts, LogArtifact(AttemptOf(w), 0, FALSE, "prompt"))
    /\ UNCHANGED <<desk, now, queue, attempts>>

\* "Determine status directly": the member of AttemptStatus the runner names
RunnerStatus(outcome) ==
    CASE outcome = "timed_out" -> "ERROR"
      [] outcome = "error" -> "ERROR"
      [] outcome = "success" -> "COMPLETE"
      [] outcome = "interrupted" -> "COMPLETE"

\* get_diff_stats, the status, the update of the attempt and the return; naming a
\* member AttemptStatus does not have raises AttributeError; either way the
\* sandbox block is left
ExecProject(w) ==
    /\ Executing(w, "logged_complete")
    /\ LET status == RunnerStatus(ex[w].outcome)
           raises == status \notin AttemptStatusMembers IN
          /\ attempts' = IF raises THEN attempts
                         ELSE [attempts EXCEPT ![AttemptOf(w)].status = status,
                                               ![AttemptOf(w)].finished_at = now]
          /\ \E dir \in SandboxExit(raises) :
                ex' = [ex EXCEPT ![w].pos = IF raises THEN "raised" ELSE "returned",
                                 ![w].dir = dir]
    /\ UNCHANGED <<desk, now, queue, artifacts>>

\* one worker's step of _process_next_job around the handler
WorkerStep ==
    \/ \E w \in Workers : ClaimSelect(w)
    \/ \E w \in Workers : ClaimUpdate(w)
    \/ \E w \in Workers : StartJob(w)
    \/ \E w \in Workers : FailRead(w)
    \/ \E w \in Workers : FailWrite(w)

Next ==
    \/ Tick
    \/ CreateJob
    \/ WorkerStep
    \/ \E w \in Workers : CompleteJob(w)
    \/ \E w \in Workers : Crash(w)
    \/ RecoverStaleJobs
    \/ RouteRecoverStale
    \/ RetryJob

Spec == Init /\ [][Next]_vars

\* the execution of attempts by workers that stay alive, without stale recovery
NextExec ==
    \/ Tick
    \/ CreateAttempt
    \/ CancelAttempt
    \/ WorkerStep
    \/ \E w \in Workers : ExecBegin(w)
    \/ \E w \in Workers : LogEvent(w)
    \/ \E w \in Workers : SandboxCreate(w)
    \/ \E w \in Workers : MessageLog(w)
    \/ \E w \in Workers : CallbackLog(w)
    \/ \E w \in Workers : ResultLog(w)
    \/ \E w \in Workers : ExecTimeout(w)
    \/ \E w \in Workers : SavePrompt(w)
    \/ \E w \in Workers : ExecProject(w)

ExecSpec == Init /\ [][NextExec]_vars

\* the steps of worker w inside _execute_attempt
ExecStep(w) ==
    \/ ExecBegin(w) \/ LogEvent(w) \/ SandboxCreate(w) \/ MessageLog(w)
    \/ ResultLog(w) \/ ExecTimeout(w) \/ SavePrompt(w) \/ ExecProject(w)

\* the runner under fair scheduling: a worker inside _execute_attempt keeps
\* being scheduled by the event loop
FairExecSpec == ExecSpec /\ WF_vars(NextExec) /\ \A w \in Workers : WF_vars(ExecStep(w))

\* the queue under fair scheduling: the clock advances, idle workers keep
\* polling, a started claim statement finishes, stale recovery keeps being run
FairSpec ==
    /\ Spec
    /\ WF_vars(Tick)
    /\ \A w \in Workers : WF_vars(ClaimSelect(w)) /\ WF_vars(ClaimUpdate(w))
    /\ WF_vars(RecoverStaleJobs)

\* ---- api/routes: requests that run concurrently, clarifications -----------
\* create_attempt up to its count query: attempt_count is read, nothing written
CreateAttemptCount ==
    /\ Len(attempts) + Len(reqs) < MaxApiAttempts
    /\ \E signal_id \in Signals :
          reqs' = Append(reqs, [signal_id |-> signal_id,
                                attempt_count |-> Cardinality(AttemptsOfSignal(signal_id))])
    /\ UNCHANGED <<side, now, queue, store, clars, drv>>

\* the rest of create_attempt: attempt_number = attempt_count + 1, the rows
\* are flushed and the request's transaction commits
CreateAttemptInsert ==
    \E r \in DOMAIN reqs :
       /\ "signal_id" \in DOMAIN reqs[r]
       /\ AddAttempt(reqs[r].signal_id, reqs[r].attempt_count + 1, RUN_ATTEMPT)
       /\ reqs' = [i \in 1..(Len(reqs) - 1) |-> IF i < r THEN reqs[i] ELSE reqs[i + 1]]
       /\ UNCHANGED <<side, now, wk, wasDead, artifacts, ex, clars, drv>>

\* a Clarification row; question_id is "auq_<call>_<idx>", is_answered is
\* answer_text is not None or accepted_default
NewClarification(attempt_id, call, idx) ==
    [attempt_id |-> attempt_id, call |-> call, idx |-> idx, answered |-> FALSE,
     answered_by |-> NULL]

ClarsOf(attempt_id) == { c \in DOMAIN clars : clars[c].attempt_id = attempt_id }

\* (a variant) on_questions_asked returns before its rows are in the table
SavedLater(attempt_id, call, n) == clars

\* on_questions_asked([{id: auq_<call>, questions: n of them}]): the table after it
SavedQuestions(attempt_id, call, n) ==
    clars \o [i \in 1..n |-> NewClarification(attempt_id, call, i - 1)]

\* the runner's callback, for a worker that is executing the attempt with the
\* real client (the first AskUserQuestion call of that execution)
OnQuestionsAsked ==
    \E attempt_id \in DOMAIN attempts, n \in 1..MaxQuestions :
       /\ ClarsOf(attempt_id) = {}
       /\ clars' = SavedQuestions(attempt_id, 0, n)
       /\ UNCHANGED <<side, now, queue, store, reqs, drv>>

\* submit_clarification: rejected when already answered; accepting the default
\* is rejected too (default_answer is always None), so answer_text is set
Submitters == 1..MaxSubmitters

\* "Update clarification": the answer and who gave it
AnsweredClarification(clarification, answered_by) ==
    [clarification EXCEPT !.answered = TRUE, !.answered_by = answered_by]

\* a submit_clarification request that runs alone
SubmitClarification ==
    \E c \in DOMAIN clars, answered_by \in Submitters :
       /\ ~clars[c].answered
       /\ clars' = [clars EXCEPT ![c] = AnsweredClarification(clars[c], answered_by)]
       /\ UNCHANGED <<side, now, queue, store, reqs, drv>>

\* submit_clarification up to its checks: the row is read with a plain SELECT
\* and found unanswered, nothing is written yet
SubmitRead ==
    /\ Len(attempts) + Len(reqs) < MaxApiAttempts
    /\ \E c \in DOMAIN clars, answered_by \in Submitters :
          /\ ~clars[c].answered
          /\ reqs' = Append(reqs, [clarification |-> c, answered_by |-> answered_by])
    /\ UNCHANGED <<side, now, queue, store, clars, drv>>

\* the rest of submit_clarification: the assignments are flushed as an UPDATE
\* by primary key and the request's transaction commits
SubmitWrite ==
    \E r \in DOMAIN reqs :
       /\ "clarification" \in DOMAIN reqs[r]
       /\ clars' = [clars EXCEPT ![reqs[r].clarification] =
                       AnsweredClarification(@, reqs[r].answered_by)]
       /\ reqs' = [i \in 1..(Len(reqs) - 1) |-> IF i < r THEN reqs[i] ELSE reqs[i + 1]]
       /\ UNCHANGED <<side, now, queue, store, drv>>

\* retry_with_clarification: requires the clarification answered
RetryWithClarification ==
    \E c \in DOMAIN clars :
       /\ Len(attempts) + Len(reqs) < MaxApiAttempts
       /\ clars[c].answered
       /\ LET old_attempt == attempts[clars[c].attempt_id]
          IN AddAttempt(old_attempt.signal_id, old_attempt.attempt_number + 1, RETRY_ATTEMPT)
       /\ UNCHANGED <<now, wk, wasDead, artifacts, ex, desk>>

NextApi ==
    \/ CreateAttemptCount
    \/ CreateAttemptInsert
    \/ OnQuestionsAsked
    \/ SubmitClarification
    \/ SubmitRead
    \/ SubmitWrite
    \/ RetryWithClarification

ApiSpec == Init /\ [][NextApi]_vars

\* ---- executor.py: ClaudeCodeExecutor.execute -------------------------------
\* one call of execute, made with log_callback = None (write_log does nothing)
\* and, in bidirectional mode, callbacks that write and read the
\* clarifications table as the runner's on_questions_asked and
\* poll_for_answers do
Clients == {"sdk", "ask_user_question", "success", "error"}

\* a message of the stream: its class, the number of ToolUseBlocks it holds,
\* whether its text holds the implementation spec, is_error of a result, and
\* the number of questions of its AskUserQuestion block (0: it has none)
Msg(kind, tools, spec, is_error) ==
    [kind |-> kind, tools |-> tools, spec |-> spec, is_error |-> is_error, questions |-> 0]

SystemMsg == Msg("system", 0, FALSE, FALSE)
ToolUseMsg == Msg("assistant", 1, FALSE, FALSE)
ToolResultMsg == Msg("user", 0, FALSE, FALSE)
SpecMsg == Msg("assistant", 0, TRUE, FALSE)
ResultMsg(is_error) == Msg("result", 0, FALSE, is_error)
AskMsg(n) == [ToolUseMsg EXCEPT !.questions = n]

\* mock_client.py: the scenarios
MockMessages(scenario) ==
    CASE scenario = "ask_user_question" ->
            <<SystemMsg, ToolUseMsg, ToolResultMsg, ToolUseMsg, ToolResultMsg, AskMsg(2)>>
      [] scenario = "success" ->
            <<SystemMsg, ToolUseMsg, ToolResultMsg, SpecMsg, ResultMsg(FALSE)>>
      [] scenario = "error" ->
            <<SystemMsg, ToolUseMsg, ToolResultMsg, ResultMsg(TRUE)>>

MockContinuation(scenario) ==
    IF scenario = "ask_user_question" THEN <<SpecMsg, ResultMsg(FALSE)>> ELSE <<>>

\* the end of execute: disconnect, then success is computed
Finished(d) ==
    [d EXCEPT !.pos = "returned", !.agent = "none", !.hpc = "none",
              !.success = /\ ~d.timed_out
                          /\ ~d.budget_exceeded
                          /\ ~d.error_message
                          /\ d.result # "error"]

\* one iteration of the message loop on message m
Consumed(d, m) ==
    LET counted == IF d.tool_call_count + m.tools >= MaxToolCalls
                   THEN MaxToolCalls ELSE d.tool_call_count + m.tools
        budget == m.kind = "assistant" /\ m.tools > 0 /\ counted >= MaxToolCalls
        e == [d EXCEPT !.idx = d.idx + 1,
                       !.asks = IF m.questions > 0 THEN @ + 1 ELSE @,
                       !.n = IF m.questions > 0 THEN m.questions ELSE @,
                       !.tool_call_count = IF m.kind = "assistant" THEN counted ELSE @,
                       !.budget_exceeded = budget,
                       !.final_spec = @ \/ (m.kind = "assistant" /\ m.spec),
                       !.result = IF m.kind # "result" THEN @
                                  ELSE IF m.is_error THEN "error" ELSE "ok"]
    IN IF m.kind = "result" \/ budget \/ d.interrupted_for_questions
       THEN Finished(e) ELSE e

\* execute up to the first wait on the stream: the handler is registered only
\* when both callbacks are supplied; connect and the first query
ExecuteCall ==
    /\ drv.pos = "idle"
    /\ \E attempt_id \in DOMAIN attempts, bidirectional \in BOOLEAN, client \in Clients :
          drv' = [IdleDriver EXCEPT !.pos = "running", !.bidirectional = bidirectional,
                                    !.client = client, !.attempt_id = attempt_id,
                                    !.agent = "working", !.query_count = 1,
                                    !.run = 1]
    /\ UNCHANGED <<side, now, queue, store, clars, reqs>>

\* the job of the attempt is retried: _execute_attempt runs again for the same
\* attempt id and calls execute on a new executor, with the same settings
ExecuteAgain ==
    /\ drv.pos = "returned"
    /\ drv.run < MaxExecutions
    /\ drv' = [IdleDriver EXCEPT !.pos = "running", !.bidirectional = drv.bidirectional,
                                 !.client = drv.client, !.attempt_id = drv.attempt_id,
                                 !.agent = "working", !.query_count = 1,
                                 !.run = drv.run + 1]
    /\ UNCHANGED <<side, now, queue, store, clars, reqs>>

\* the messages the agent behind ClaudeSDKClient can send
SdkMessages ==
    {SystemMsg, ToolResultMsg, ResultMsg(FALSE), ResultMsg(TRUE)}
       \cup { Msg("assistant", tools, spec, FALSE) : tools \in 0..MaxBlocks, spec \in BOOLEAN }

\* the agent sends a message that asks nothing and the loop handles it
AgentMessage ==
    /\ drv.pos = "running" /\ drv.client = "sdk" /\ drv.agent = "working"
    /\ \E m \in SdkMessages :
          /\ m.kind = "result" \/ drv.idx < MaxAgentMessages
          /\ drv' = Consumed(drv, m)
    /\ UNCHANGED <<side, now, queue, store, clars, reqs>>

\* the agent calls AskUserQuestion with n questions: the Assistant message
\* goes through the loop, and the SDK asks the registered handler, if any,
\* for permission and waits for its verdict
AgentAsks ==
    /\ drv.pos = "running" /\ drv.client = "sdk" /\ drv.agent = "working"
    /\ drv.idx < MaxAgentMessages /\ drv.asks < MaxAskCalls
    /\ \E n \in 1..MaxQuestions :
          LET d == Consumed(drv, AskMsg(n))
          IN drv' = IF d.pos = "running" /\ d.bidirectional
                    THEN [d EXCEPT !.agent = "asking", !.hpc = "invoked"]
                    ELSE d
    /\ UNCHANGED <<side, now, queue, store, clars, reqs>>

\* receive_messages raises (the agent process dies)
ClientFails ==
    /\ drv.pos = "running" /\ drv.client = "sdk" /\ drv.agent = "working"
    /\ drv' = Finished([drv EXCEPT !.error_message = TRUE])
    /\ UNCHANGED <<side, now, queue, store, clars, reqs>>

\* uq_clarifications_attempt_question: a row with this attempt_id and the
\* question_id "auq_<call>_0" is in the table, so the first flush of
\* on_questions_asked raises IntegrityError
Duplicate(attempt_id, call) ==
    \E c \in ClarsOf(attempt_id) : clars[c].call = call /\ clars[c].idx = 0

\* can_use_tool_handler up to its first poll: questions_asked grows; with the
\* callbacks the questions are saved, without them the tool is denied. When
\* the insert fails the exception leaves the handler: the SDK answers the
\* agent with an error and the agent goes on, or the stream breaks
HandlerSave ==
    /\ drv.pos = "running" /\ drv.hpc = "invoked"
    /\ IF drv.bidirectional /\ Duplicate(drv.attempt_id, drv.questions_asked)
       THEN /\ clars' = clars
            /\ \E goes_on \in BOOLEAN :
                  LET d == [drv EXCEPT !.questions_asked = @ + 1, !.hpc = "none",
                                       !.rejected = @ + 1]
                  IN drv' = IF goes_on THEN [d EXCEPT !.agent = "working"]
                            ELSE Finished([d EXCEPT !.error_message = TRUE])
       ELSE IF drv.bidirectional
       THEN /\ clars' = SavedQuestions(drv.attempt_id, drv.questions_asked, drv.n)
            /\ drv' = [drv EXCEPT !.questions_asked = @ + 1, !.hpc = "polling",
                                   !.created = @ \cup ((Len(clars) + 1)..(Len(clars) + drv.n))]
       ELSE /\ clars' = clars
            /\ drv' = [drv EXCEPT !.questions_asked = @ + 1, !.hpc = "none",
                                   !.agent = "working",
                                   !.interrupted_for_questions = TRUE]
    /\ UNCHANGED <<side, now, queue, store, reqs>>

\* poll_for_answers satisfied by a single answer
AnyAnswered(created) == \E c \in created : clars[c].answered

AllAnswered(created) == \A c \in created : clars[c].answered

\* poll_for_answers: None while a created clarification is unanswered. The
\* rows are read through the worker's session (expire_on_commit = False),
\* which may still hold them as first loaded, so None can also come back
\* after the answers were submitted
PollForAnswers(created) ==
    IF AllAnswered(created) THEN {"answers", "None"} ELSE {"None"}

\* one round of the handler's polling loop; with answers it returns allow
\* and the agent goes on
HandlerPoll ==
    /\ drv.pos = "running" /\ drv.hpc = "polling"
    /\ \E answers \in PollForAnswers(drv.created) :
          drv' = IF answers = "None" THEN drv
                 ELSE [drv EXCEPT !.hpc = "none", !.agent = "working", !.allowed = @ + 1]
    /\ UNCHANGED <<side, now, queue, store, clars, reqs>>

\* MockClaudeSDKClient.receive_messages: the scenario's messages, then the
\* continuation once a second query() has set _pending_continuation, which
\* execute never sends; options.can_use_tool is never called
MockYield ==
    /\ drv.pos = "running" /\ drv.client # "sdk"
    /\ LET initial == MockMessages(drv.client)
           continuation == MockContinuation(drv.client)
       IN IF drv.idx < Len(initial)
          THEN drv' = Consumed(drv, initial[drv.idx + 1])
          ELSE /\ drv.pending_continuation
               /\ drv.idx < Len(initial) + Len(continuation)
               /\ drv' = Consumed(drv, continuation[drv.idx + 1 - Len(initial)])
    /\ UNCHANGED <<side, now, queue, store, clars, reqs>>

\* the event loop's clock, up to the deadline of asyncio.timeout
Elapse ==
    /\ drv.pos = "running" /\ drv.elapsed < TimeoutTicks
    /\ drv' = [drv EXCEPT !.elapsed = @ + 1]
    /\ UNCHANGED <<side, now, queue, store, clars, reqs>>

\* a timeout that is suspended while the handler polls
ArmedOutsideHandler(d) == d.pos = "running" /\ d.hpc # "polling"

\* asyncio.timeout covers connect, query and the whole loop, whatever the
\* loop and the handler are waiting for
TimeoutArmed(d) == d.pos = "running"

ExecuteTimeout ==
    /\ TimeoutArmed(drv) /\ drv.elapsed = TimeoutTicks
    /\ drv' = Finished([drv EXCEPT !.timed_out = TRUE, !.error_message = TRUE])
    /\ UNCHANGED <<side, now, queue, store, clars, reqs>>

NextDriver ==
    \/ CreateAttempt
    \/ ExecuteCall
    \/ ExecuteAgain
    \/ AgentMessage
    \/ AgentAsks
    \/ ClientFails
    \/ HandlerSave
    \/ HandlerPoll
    \/ SubmitClarification
    \/ MockYield
    \/ Elapse
    \/ ExecuteTimeout

DriverSpec == Init /\ [][NextDriver]_vars

\* the loop's clock advances and the timeout fires; nothing is assumed of
\* the agent or of the human
FairDriverSpec == DriverSpec /\ WF_vars(Elapse) /\ WF_vars(ExecuteTimeout)

\* ---- functions without side effects ----------------------------------------
\* Python's None where the other values are strings
None == "None"

Texts == {"", "yes", "no"}

Evaluated == "out" \in DOMAIN calc

\* the value of the call is known
Return(value) ==
    /\ ~Evaluated
    /\ calc' = [f \in DOMAIN calc \cup {"out"} |-> IF f = "out" THEN value ELSE calc[f]]
    /\ UNCHANGED <<now, queue, store, clars, reqs, drv, cancels, lk>>

\* models/clarification.py: the columns the two properties read
ClarificationRows ==
    [answer_text : Texts \cup {None}, accepted_default : BOOLEAN,
     default_answer : Texts \cup {None}]

\* (a variant) the default counts whether it was accepted or not
effective_or_default(c) ==
    IF c.answer_text # None THEN c.answer_text ELSE c.default_answer

is_answered(c) == c.answer_text # None \/ c.accepted_default

effective_answer(c) ==
    IF c.answer_text # None THEN c.answer_text
    ELSE IF c.accepted_default /\ c.default_answer # None THEN c.default_answer
    ELSE None

ClarificationCalls == { [fn |-> "clarification", c |-> c] : c \in ClarificationRows }

\* both properties of one row are read
ReadClarification ==
    /\ calc.fn = "clarification"
    /\ Return([is_answered |-> is_answered(calc.c),
               effective_answer |-> effective_answer(calc.c)])

\* ---- classifier.py: OutcomeClassifier ----------------------------------------
max_diff_lines == 800
max_files_touched == 40

\* questions_asked: per AskUserQuestion call, the questions of the call
QuestionsAsked ==
    { <<>>, << <<>> >>, << <<"q1">> >>, << <<"q1", "q2">> >>, << <<"q2", "q1">> >>,
      << <<"q1">>, <<"q2">> >> }

\* the fields of an ExecutionResult that classify reads; of the text, whether
\* PR_URL_PATTERN and whether a pattern of STUCK_PATTERNS is found in it
ExecutionResults ==
    [success : BOOLEAN, timed_out : BOOLEAN, budget_exceeded : BOOLEAN,
     interrupted_for_questions : BOOLEAN, questions_asked : QuestionsAsked,
     pr_url : BOOLEAN, stuck : BOOLEAN]

\* sandbox.py: DiffStats; files_count is len(files_touched)
DiffStatsValues ==
    [lines_added : {0, 800, 900}, lines_deleted : {0, 1}, files_count : {0, 3, 40, 41}]

total_lines(d) == d.lines_added + d.lines_deleted

Flag(name, value) == [flag |-> name, value |-> value]

ClassificationResult(status, error_message, risk_flags, questions, pr_url) ==
    [status |-> status, error_message |-> error_message, risk_flags |-> risk_flags,
     questions |-> questions, pr_url |-> pr_url]

\* the questions of all calls, in order
RECURSIVE Flattened(_)
Flattened(questions_asked) ==
    IF questions_asked = <<>> THEN <<>>
    ELSE Head(questions_asked) \o Flattened(Tail(questions_asked))

\* questions answered during the run are not returned
_extract_questions_from_result(r) ==
    IF ~r.interrupted_for_questions /\ r.questions_asked # <<>> THEN <<>>
    ELSE Flattened(r.questions_asked)

\* (a variant) the budget is looked at before the timeout
budget_first(r) ==
    IF r.budget_exceeded THEN "budget" ELSE IF r.timed_out THEN "timeout" ELSE "none"

\* "Handle timeout/budget cases first"
hard_failure(r) ==
    IF r.timed_out THEN "timeout" ELSE IF r.budget_exceeded THEN "budget" ELSE "none"

\* (a variant) a soft gate that is also passed at its limit
AtLeast(value, limit) == value >= limit

\* a soft gate is passed
Over(value, limit) == value > limit

\* _detect_stuck_patterns: one Question per category that matches
ImplicitQuestions == <<"Clarification needed">>

soft_gates(d) ==
    (IF Over(total_lines(d), max_diff_lines)
     THEN <<Flag("DIFF_SIZE_EXCEEDED", total_lines(d))>> ELSE <<>>)
    \o (IF Over(d.files_count, max_files_touched)
        THEN <<Flag("FILES_EXCEEDED", d.files_count)>> ELSE <<>>)

classify(r, d) ==
    LET questions == _extract_questions_from_result(r) IN
    CASE hard_failure(r) = "timeout" ->
            ClassificationResult("FAILED", "Execution timed out", <<Flag("TIMEOUT", NULL)>>,
                                 <<>>, FALSE)
      [] hard_failure(r) = "budget" ->
            ClassificationResult("FAILED", "Tool call budget exceeded",
                                 <<Flag("BUDGET_EXCEEDED", NULL)>>, <<>>, FALSE)
      [] OTHER ->
            IF questions # <<>>
            THEN ClassificationResult("NEEDS_HUMAN", None, <<>>, questions, FALSE)
            ELSE IF d.files_count = 0 /\ r.success /\ r.stuck
            THEN ClassificationResult("NEEDS_HUMAN", None, <<>>, ImplicitQuestions, FALSE)
            ELSE IF ~r.success
            THEN ClassificationResult("FAILED", "Execution failed",
                                      <<Flag("EXECUTION_ERROR", NULL)>>, <<>>, FALSE)
            ELSE ClassificationResult(
                    IF r.pr_url THEN "SUCCESS"
                    ELSE IF d.files_count = 0 THEN "NOOP" ELSE "SUCCESS",
                    None, soft_gates(d), <<>>, r.pr_url)

ClassifyCalls ==
    { [fn |-> "classify", r |-> r, d |-> d] : r \in ExecutionResults, d \in DiffStatsValues }

Classify ==
    /\ calc.fn = "classify"
    /\ Return(classify(calc.r, calc.d))

\* ---- runner.py: "Determine status directly (simple logic)" -------------------
\* the member of AttemptStatus the runner names for an ExecutionResult
status_projection(r) ==
    IF r.timed_out THEN "ERROR"
    ELSE IF r.budget_exceeded THEN "ERROR"
    ELSE IF ~r.success THEN "ERROR"
    ELSE IF r.interrupted_for_questions THEN "WAITING"
    ELSE "COMPLETE"

StatusCalls ==
    { [fn |-> "status", r |-> r, d |-> d] : r \in ExecutionResults, d \in DiffStatsValues }

\* get_diff_stats, then the status chosen from the result alone
DetermineStatus ==
    /\ calc.fn = "status"
    /\ Return(status_projection(calc.r))

\* ---- executor.py: the answers the handler hands back -------------------------
QuestionTexts == {"q1", "q2"}
AnswerTexts == {"yes", "no"}

QuestionLists ==
    UNION { [1..n -> QuestionTexts] : n \in 1..MaxQuestions }

\* the question ids poll_for_answers reports when call number `call`, of n
\* questions, is answered: those of the calls before it and its own
AnsweredIds(call, n) ==
    { <<c, i>> \in (0..call) \X (0..(MaxQuestions - 1)) : c = call => i < n }

\* (a variant) the ids are built with the id of the first call, "auq_0"
formatted_first_call(call, questions_list, answers) ==
    [t \in { questions_list[i] : i \in DOMAIN questions_list }
        |-> answers[<<0, (CHOOSE i \in DOMAIN questions_list : questions_list[i] = t) - 1>>]]

\* formatted_answers: a dict keyed by question text, filled in order of the
\* questions, so a later question with the same text replaces the earlier one
formatted_answers(call, questions_list, answers) ==
    LET asked(t) == { i \in DOMAIN questions_list :
                        questions_list[i] = t /\ <<call, i - 1>> \in DOMAIN answers }
        last(t) == CHOOSE i \in asked(t) : \A k \in asked(t) : k <= i
    IN [t \in { questions_list[i] : i \in { k \in DOMAIN questions_list :
                                              <<call, k - 1>> \in DOMAIN answers } }
           |-> answers[<<call, last(t) - 1>>]]

AnswerCalls ==
    UNION { { [fn |-> "answers", call |-> call, questions_list |-> q, answers |-> a] :
                a \in [AnsweredIds(call, Len(q)) -> AnswerTexts] } :
            call \in 0..(MaxAskCalls - 1), q \in QuestionLists }

\* the handler builds the updated input of its allow verdict
HandlerAnswers ==
    /\ calc.fn = "answers"
    /\ Return(formatted_answers(calc.call, calc.questions_list, calc.answers))

\* one call of one of the functions, with arguments of its domain
CalcInit ==
    \E c \in ClarificationCalls \cup ClassifyCalls \cup StatusCalls \cup AnswerCalls :
       Started(c)

NextCalc ==
    \/ ReadClarification
    \/ Classify
    \/ DetermineStatus
    \/ HandlerAnswers

CalcSpec == CalcInit /\ [][NextCalc]_vars

\* ---- executor.py: db_lock, the message loop and the permission handler ---------
\* the tasks that take db_lock; lk[t] is the position of task t
Tasks == {"loop", "handler"}

\* the positions in front of an "async with db_lock:"
WantsLock == {"write_log", "log_waiting", "save", "poll", "log_answered"}

\* the await inside the block entered from position pc
Inside(pc) ==
    CASE pc = "write_log" -> "log_callback"              \* the loop's write_log
      [] pc = "log_waiting" -> "log_callback_waiting"    \* write_log(waiting_for_human)
      [] pc = "save" -> "on_questions_asked"
      [] pc = "poll" -> "poll_for_answers"
      [] pc = "log_answered" -> "log_callback_answered"  \* write_log(human_answered)

InsideLock == { Inside(pc) : pc \in WantsLock }

\* where the task goes on when the block is left; poll_for_answers gives None
\* (sleep again) or the answers
After(pc) ==
    CASE pc = "log_callback" -> {"receive"}
      [] pc = "log_callback_waiting" -> {"save"}
      [] pc = "on_questions_asked" -> {"sleep"}
      [] pc = "poll_for_answers" -> {"sleep", "log_answered"}
      [] pc = "log_callback_answered" -> {"none"}

\* (a variant) saving and waiting for the answers in one block
HeldWhileWaiting(pc) == pc # "on_questions_asked"

\* "async with" releases the lock when the block at pc is left
Released(pc) == TRUE

\* task t gets the free lock
Acquire(t) ==
    /\ lk[t] \in WantsLock
    /\ lk.holder = "none"
    /\ lk' = [lk EXCEPT ![t] = Inside(lk[t]), !.holder = t]
    /\ UNCHANGED <<now, queue, store, clars, reqs, drv, cancels, calc>>

\* the await in the block of task t returns and the block is left; write_log
\* has counted sequence_num inside it
Release(t) ==
    /\ lk[t] \in InsideLock
    /\ \E pc \in After(lk[t]) :
          lk' = [lk EXCEPT ![t] = pc,
                           !.holder = IF Released(lk[t]) THEN "none" ELSE @,
                           !.sequence_num = IF lk[t] \in {"on_questions_asked", "poll_for_answers"}
                                            THEN @ ELSE @ + 1]
    /\ UNCHANGED <<now, queue, store, clars, reqs, drv, cancels, calc>>

\* receive_messages yields a message and the loop calls write_log
LoopReceives ==
    /\ lk.loop = "receive"
    /\ lk.sequence_num < MaxLogs
    /\ lk' = [lk EXCEPT !.loop = "write_log"]
    /\ UNCHANGED <<now, queue, store, clars, reqs, drv, cancels, calc>>

\* the SDK calls can_use_tool_handler for an AskUserQuestion
HandlerInvoked ==
    /\ lk.handler = "none"
    /\ lk.asks < MaxAskCalls
    /\ lk' = [lk EXCEPT !.handler = "log_waiting", !.asks = @ + 1, !.polls = 0]
    /\ UNCHANGED <<now, queue, store, clars, reqs, drv, cancels, calc>>

\* asyncio.sleep(answer_poll_interval) is over
Wake ==
    /\ lk.handler = "sleep"
    /\ lk.polls < MaxPolls
    /\ lk' = [lk EXCEPT !.handler = "poll", !.polls = @ + 1]
    /\ UNCHANGED <<now, queue, store, clars, reqs, drv, cancels, calc>>

NextLock ==
    \/ \E t \in Tasks : Acquire(t)
    \/ \E t \in Tasks : Release(t)
    \/ LoopReceives
    \/ HandlerInvoked
    \/ Wake

LockSpec == Init /\ [][NextLock]_vars

\* ==== the claims ============================================================
NoRowLocked == \A j \in JobIds : ~Locked(j)

EligibleJobs(at, job_types) == { j \in JobIds : Eligible(jobs[j], at, job_types) }

\* worker w's claim statement commits in this step
ClaimCommits(w) == wk[w].pc = "claiming" /\ wk'[w].pc = "claimed"

\* worker w's fail_job UPDATE matches its row in this step
FailUpdates(w) == wk[w].pc = "failing" /\ wk'[w].pc = "idle" /\ jobs' # jobs

\* C1: of the workers whose claim_job runs concurrently for one eligible job, one
\* gets it and it becomes CLAIMED with that worker's id; no other claim statement
\* holds or returns the same job, the others find no row and return None.
C1_ExactlyOneClaimer ==
    [][\A w \in Workers :
          ClaimCommits(w) =>
             LET j == wk[w].job IN
             /\ jobs[j].status = PENDING
             /\ jobs'[j].status = CLAIMED
             /\ jobs'[j].worker_id = w
             /\ \A v \in Workers \ {w} : ~(wk[v].pc = "claiming" /\ wk[v].job = j)
             /\ (EligibleJobs(now, WorkerJobTypes) = {j}
                    => ClaimResults(now, WorkerJobTypes) = {NULL})]_vars

\* two claimers, one eligible job: one holds it, the other's claim finds no row
C1_Witness ==
    \E w \in Workers, v \in Workers :
       /\ w # v
       /\ wk[w].pc = "claiming"
       /\ wk[v].pc = "idle"
       /\ EligibleJobs(now, WorkerJobTypes) = {wk[w].job}
       /\ ClaimResults(now, WorkerJobTypes) = {NULL}

\* C2: with no concurrent claimer, claim_job returns None exactly when no job is
\* eligible (PENDING, scheduled_for <= now, retry_count < max_retries, type in the
\* filter if one is given); otherwise it returns an eligible job and no eligible
\* job has a higher priority, or the same priority and an earlier scheduled_for.
C2_ClaimPicksBest ==
    [][NoRowLocked =>
         /\ \A job_types \in {NoFilter, WorkerJobTypes} :
               /\ ClaimResults(now, job_types) = {NULL}
                     <=> EligibleJobs(now, job_types) = {}
               /\ \A r \in ClaimResults(now, job_types) \ {NULL} :
                     /\ r \in EligibleJobs(now, job_types)
                     /\ \A k \in EligibleJobs(now, job_types) :
                           /\ jobs[k].priority <= jobs[r].priority
                           /\ jobs[k].priority = jobs[r].priority
                                 => jobs[k].scheduled_for >= jobs[r].scheduled_for
         /\ \A w \in Workers :
               wk[w].pc = "idle" /\ wk'[w].pc = "claiming"
                  => wk'[w].job \in ClaimResults(now, WorkerJobTypes) \ {NULL}]_vars

\* a claim took the higher of two eligible jobs of different priority
C2_Witness ==
    \E w \in Workers, k \in JobIds :
       /\ wk[w].pc = "claiming"
       /\ k # wk[w].job
       /\ Eligible(jobs[k], wk[w].t, WorkerJobTypes)
       /\ jobs[k].priority < jobs[wk[w].job].priority

\* C3: fail_job on a CLAIMED or RUNNING job with (the retry_count it read) + 1 <
\* max_retries leaves the job PENDING with retry_count = the read value + 1,
\* worker_id, claimed_at and heartbeat_at cleared, the error recorded and
\* scheduled_for = now + retry_delay_seconds * 2^(read retry_count) (delay 10:
\* +10, then +20); the job is not eligible at any time before that.
C3_RetryBackoff ==
    [][\A w \in Workers :
          (FailUpdates(w) /\ wk[w].rc + 1 < wk[w].mx) =>
             LET j == wk[w].job
                 after == jobs'[j]
             IN /\ after.status = PENDING
                /\ after.retry_count = wk[w].rc + 1
                /\ after.worker_id = NULL
                /\ after.claimed_at = NULL
                /\ after.heartbeat_at = NULL
                /\ after.error = HandlerError
                /\ \E d \in RetryDelays :
                      after.scheduled_for = wk[w].t + d * Pow2(wk[w].rc)
                /\ after.scheduled_for >= wk[w].t + Pow2(wk[w].rc)
                /\ [after EXCEPT !.status = jobs[j].status, !.retry_count = jobs[j].retry_count,
                                 !.worker_id = jobs[j].worker_id,
                                 !.claimed_at = jobs[j].claimed_at,
                                 !.heartbeat_at = jobs[j].heartbeat_at,
                                 !.error = jobs[j].error,
                                 !.scheduled_for = jobs[j].scheduled_for] = jobs[j]
                /\ \A t \in 0..(after.scheduled_for - 1) :
                      ~Eligible(after, t, NoFilter)
                /\ Backoff(10, 0) = 10
                /\ Backoff(10, 1) = 20]_vars

\* a job failed for the second time: retry_count 2, scheduled 2 * delay ahead
C3_Witness ==
    \E j \in JobIds :
       /\ jobs[j].status = PENDING
       /\ jobs[j].error = HandlerError
       /\ jobs[j].retry_count = 2
       /\ jobs[j].scheduled_for > now + 1

LeaseExpired(job, T) ==
    /\ job.status \in {CLAIMED, RUNNING}
    /\ job.heartbeat_at # NULL
    /\ job.heartbeat_at < now - T

\* this step is a stale recovery with threshold T (service or route) that recovered a job
Recovers(T) ==
    /\ jobs' # jobs
    /\ \/ jobs' = RecoverAll(jobs, now, T)
       \/ jobs' = RouteRecoverAll(jobs, now, T)

\* the changes C6 lists for a recovered job, without the eligibility
RecoveredAsListed(before, after) ==
    /\ after.status = PENDING
    /\ after.retry_count = before.retry_count + 1
    /\ after.worker_id = NULL
    /\ after.error = StaleError
    /\ after.scheduled_for = before.scheduled_for

\* C6: recover_stale_jobs(T) changes exactly the CLAIMED or RUNNING jobs with
\* heartbeat_at < now - T: each becomes PENDING with retry_count + 1, worker_id
\* null, the error "Recovered from stale worker" and scheduled_for unchanged, and
\* is immediately eligible for claim; every other job is left unchanged.
C6_RecoveryExact ==
    [][\A T \in Thresholds :
          Recovers(T) =>
             \A j \in JobIds :
                IF LeaseExpired(jobs[j], T)
                THEN /\ RecoveredAsListed(jobs[j], jobs'[j])
                     /\ Eligible(jobs'[j], now, NoFilter)
                ELSE jobs'[j] = jobs[j]]_vars

\* C7: a stale recovery with threshold T, run again at once with the same
\* threshold, finds no stale job (returns 0) and changes no job.
C7_RecoveryIdempotent ==
    [][\A T \in Thresholds :
          Recovers(T) =>
             /\ StaleJobs(jobs', now - T) = {}
             /\ RecoverAll(jobs', now, T) = jobs'
             /\ RouteRecoverAll(jobs', now, T) = jobs']_vars

\* a recovery has run: one job is back in the queue, another is still held
C7_Witness ==
    \E j \in JobIds, k \in JobIds :
       /\ jobs[j].status = PENDING
       /\ jobs[j].error = StaleError
       /\ jobs[k].status \in {CLAIMED, RUNNING}

\* job j is CLAIMED or RUNNING, no worker process holds it any more, and the
\* clock has room for its lease to expire
Orphaned(j) ==
    /\ j \in JobIds
    /\ jobs[j].status \in {CLAIMED, RUNNING}
    /\ \A w \in Workers : wk[w].job # j
    /\ jobs[j].heartbeat_at + MaxThreshold < MaxTime

\* a worker holds a committed claim of job j
Reclaimed(j) ==
    /\ j \in JobIds
    /\ \E w \in Workers : wk[w].job = j /\ wk[w].pc = "claimed"

\* C8: under fair scheduling a job left CLAIMED or RUNNING by a worker that
\* vanished is eventually claimed again by a worker.
C8_OrphanReclaimed ==
    \A j \in 1..NumJobs : Orphaned(j) ~> Reclaimed(j)

\* C9: a job that a live worker is processing is not returned to PENDING by
\* stale recovery, and no second worker processes it at the same time.
C9_LiveJobKept ==
    \A w \in Workers :
       wk[w].pc = "running" =>
          /\ jobs[wk[w].job].status \in {CLAIMED, RUNNING}
          /\ jobs[wk[w].job].worker_id = w
          /\ \A v \in Workers \ {w} : ~(wk[v].pc = "running" /\ wk[v].job = wk[w].job)

\* C10: the LOG artifacts of an attempt have pairwise distinct sequence_num and
\* at most one of them has is_final = true.
C10_LogSequence ==
    \A i \in DOMAIN artifacts, k \in DOMAIN artifacts :
       (i < k /\ artifacts[i].attempt_id = artifacts[k].attempt_id
              /\ artifacts[i].type = "log" /\ artifacts[k].type = "log") =>
          /\ artifacts[i].sequence_num # artifacts[k].sequence_num
          /\ ~(artifacts[i].is_final /\ artifacts[k].is_final)

\* the LOG artifacts of attempt a, by their position in the table (the order of the commits)
LogsOf(a) ==
    { i \in DOMAIN artifacts : artifacts[i].attempt_id = a /\ artifacts[i].type = "log" }

\* C11: once the LOG artifact with is_final = true of an attempt is persisted, no
\* further LOG artifact is written for the attempt, and no LOG artifact of the
\* attempt has a larger sequence_num.
C11_FinalIsLast ==
    \A a \in DOMAIN attempts :
       \A i \in LogsOf(a), k \in LogsOf(a) :
          artifacts[i].is_final =>
             /\ k <= i
             /\ artifacts[k].sequence_num <= artifacts[i].sequence_num

\* C12: every attempt with started_at and finished_at set has started_at <= finished_at.
C12_StartedBeforeFinished ==
    \A a \in DOMAIN attempts :
       (attempts[a].started_at # NULL /\ attempts[a].finished_at # NULL)
          => attempts[a].started_at <= attempts[a].finished_at

\* no attempt has finished_at set: the case C12 speaks of does not occur
NoAttemptFinished ==
    \A a \in DOMAIN attempts : attempts[a].finished_at = NULL

\* worker w's _execute_attempt goes through its status assignment in this step
RunnerProjects(w) ==
    /\ wk[w].pc = "running"
    /\ ex[w].pos = "logged_complete"
    /\ ex'[w].pos \in {"returned", "raised"}

\* C18: when execute returned timed out or without success, the runner sets the
\* attempt to an error status with finished_at and returns normally, so that the
\* worker completes the job instead of failing it.
C18_AttemptErrorJobCompleted ==
    [][\A w \in Workers :
          (RunnerProjects(w) /\ ex[w].outcome \in {"timed_out", "error"}) =>
             /\ ex'[w].pos = "returned"
             /\ attempts'[AttemptOf(w)].status \notin {"PENDING", "RUNNING"}
             /\ attempts'[AttemptOf(w)].finished_at # NULL]_vars

\* C19: when a live worker's handler has raised and the worker is in fail_job,
\* fail_job's UPDATE leaves the job PENDING with retries left and a scheduled_for
\* later than the failure, or DEAD; the job is not left CLAIMED or RUNNING.
C19_RaisedJobRequeuedOrDead ==
    \A w \in Workers :
       wk[w].pc = "failing" =>
          \A retry_delay_seconds \in RetryDelays :
             LET after == FailedJob(jobs[wk[w].job], HandlerError, retry_delay_seconds,
                                    wk[w].rc, wk[w].mx, wk[w].t)
             IN \/ /\ after.status = PENDING
                   /\ after.retry_count < after.max_retries
                   /\ after.scheduled_for > wk[w].t
                \/ after.status = DEAD

\* worker w's _execute_attempt sets its attempt RUNNING in this step
RunnerBegins(w) ==
    /\ wk[w].pc = "running"
    /\ ex[w].pos = "none"
    /\ ex'[w].pos = "begun"

\* C20: the transition to RUNNING of a re-executed attempt sets started_at only if
\* it was null, and does not move an attempt that finished back to RUNNING.
C20_RunningIdempotent ==
    [][\A w \in Workers :
          RunnerBegins(w) =>
             LET before == attempts[AttemptOf(w)]
                 after == attempts'[AttemptOf(w)]
             IN /\ before.started_at # NULL => after.started_at = before.started_at
                /\ before.status \notin {"PENDING", "RUNNING"}
                      => after.status = before.status]_vars

SameSignal(a, b) == a # b /\ attempts[a].signal_id = attempts[b].signal_id

\* C13: for every signal, the attempt_number values of its attempts are
\* pairwise distinct and start at 1, whatever create_attempt and
\* retry_with_clarification calls were made
C13_AttemptNumbersUnique ==
    /\ \A a \in DOMAIN attempts, b \in DOMAIN attempts :
          SameSignal(a, b) => attempts[a].attempt_number # attempts[b].attempt_number
    /\ \A signal_id \in Signals :
          AttemptsOfSignal(signal_id) # {} =>
             \E a \in AttemptsOfSignal(signal_id) : attempts[a].attempt_number = 1

JobTypeOf(a) == CHOOSE t \in {RUN_ATTEMPT, RETRY_ATTEMPT} :
                    \E j \in DOMAIN jobs : jobs[j].attempt_id = a /\ jobs[j].type = t

\* retry_with_clarification was called twice for one answered attempt (no two
\* requests overlap: each retry is a single step)
C13_RetriedTwice ==
    \E a \in DOMAIN attempts, b \in DOMAIN attempts :
       /\ SameSignal(a, b)
       /\ attempts[a].attempt_number = attempts[b].attempt_number
       /\ JobTypeOf(a) = RETRY_ATTEMPT /\ JobTypeOf(b) = RETRY_ATTEMPT

\* C14: in bidirectional mode the handler returns allow for an AskUserQuestion
\* call only after every clarification created for it is answered: while a
\* created clarification is unanswered the agent is still waiting for the
\* verdict, and an agent that works again has had each of its calls allowed,
\* but for the calls whose questions could not be saved
C14_AllowOnlyWhenAnswered ==
    (drv.pos = "running" /\ drv.bidirectional) =>
       /\ \A c \in drv.created : ~clars[c].answered => drv.agent = "asking"
       /\ (drv.client = "sdk" /\ drv.agent = "working") =>
             drv.allowed + drv.rejected = drv.asks

\* the handler has returned allow for a call of two questions
C14_AllowedAfterTwoAnswers ==
    /\ drv.pos = "running" /\ drv.bidirectional
    /\ drv.allowed = 1 /\ drv.n = 2 /\ drv.agent = "working"
    /\ Cardinality(drv.created) = 2
    /\ \A c \in drv.created : clars[c].answered

MockAsk(bidirectional) ==
    drv.client = "ask_user_question" /\ drv.bidirectional = bidirectional

QuestionIds(attempt_id) == { <<clars[c].call, clars[c].idx>> : c \in ClarsOf(attempt_id) }

\* C15: execute driven with the mock "ask_user_question" scenario and both
\* callbacks returns with interrupted_for_questions = false, timed_out = false
\* and a final text that holds the implementation spec, on_questions_asked
\* having created the clarifications auq_0_0 and auq_0_1
C15_MockAskContinues ==
    (MockAsk(TRUE) /\ drv.pos = "returned" /\ drv.asks > 0) =>
       /\ ~drv.interrupted_for_questions
       /\ ~drv.timed_out
       /\ drv.final_spec
       /\ QuestionIds(drv.attempt_id) = {<<0, 0>>, <<0, 1>>}

\* C16: in blocking mode, once the agent has called AskUserQuestion, execute
\* returns interrupted_for_questions = true with one questions_asked entry
\* per call, and the driver has written no clarification
C16_BlockingInterrupts ==
    (~drv.bidirectional /\ drv.pos = "returned" /\ drv.asks > 0) =>
       /\ drv.interrupted_for_questions
       /\ drv.questions_asked = drv.asks
       /\ drv.result = "none"
       /\ ClarsOf(drv.attempt_id) = {}

\* what execute does instead: with the mock scenario it only ever returns by
\* its timeout, without a clarification; and it never reports an interrupt
MockAskTimesOut ==
    (drv.client = "ask_user_question" /\ drv.pos = "returned") =>
       drv.timed_out /\ ~drv.final_spec /\ drv.questions_asked = 0 /\ clars = <<>>

NeverInterrupted == ~drv.interrupted_for_questions

ClientError == drv.error_message /\ ~drv.timed_out

\* C17: execute always terminates: a call that is running returns, and a call
\* that returned without a Result message, a budget stop or a client error
\* (the agent stayed silent, or the human never answered) returned by its
\* timeout, with timed_out = true and success = false
C17_ExecuteTerminates ==
    /\ (drv.pos = "running") ~> (drv.pos = "returned")
    /\ [](drv.pos = "returned" =>
            /\ (drv.result = "none" /\ ~drv.budget_exceeded /\ ~ClientError) => drv.timed_out
            /\ drv.timed_out => ~drv.success)

\* execute returned by its timeout while a saved question was still unanswered
C17_TimedOutUnanswered ==
    /\ drv.pos = "returned" /\ drv.timed_out /\ ~drv.success
    /\ \E c \in drv.created : ~clars[c].answered

\* C22: for every Clarification, is_answered holds exactly when answer_text is
\* not null or accepted_default is true, and effective_answer is answer_text
\* when it is not null, else default_answer when accepted_default, else null
C22_ClarificationProperties ==
    (calc.fn = "clarification" /\ Evaluated) =>
       /\ calc.out.is_answered <=> (calc.c.answer_text # None \/ calc.c.accepted_default)
       /\ calc.out.effective_answer =
             (IF calc.c.answer_text # None THEN calc.c.answer_text
              ELSE IF calc.c.accepted_default THEN calc.c.default_answer ELSE None)

\* a row without answer_text whose default was not accepted: no effective answer
C22_DefaultNotAccepted ==
    /\ calc.fn = "clarification" /\ Evaluated
    /\ calc.c.answer_text = None /\ ~calc.c.accepted_default /\ calc.c.default_answer = "yes"
    /\ ~calc.out.is_answered /\ calc.out.effective_answer = None

Classified == calc.fn = "classify" /\ Evaluated

HasFlag(name) == \E i \in DOMAIN calc.out.risk_flags : calc.out.risk_flags[i].flag = name

\* questions were asked and the run was interrupted for them
Unanswered(r) == r.interrupted_for_questions /\ Flattened(r.questions_asked) # <<>>

\* C23: classify applies its rules in a fixed precedence: timed_out gives FAILED
\* with the flag TIMEOUT and the error "Execution timed out" whatever the other
\* fields; else budget_exceeded gives FAILED with BUDGET_EXCEEDED; else
\* unanswered questions give NEEDS_HUMAN even when success is false; only then
\* success = false gives FAILED with the error text
C23_ClassifyPrecedence ==
    Classified =>
       LET r == calc.r  out == calc.out IN
       /\ r.timed_out =>
             /\ out.status = "FAILED" /\ out.error_message = "Execution timed out"
             /\ out.risk_flags = <<Flag("TIMEOUT", NULL)>>
       /\ (~r.timed_out /\ r.budget_exceeded) =>
             out.status = "FAILED" /\ out.risk_flags = <<Flag("BUDGET_EXCEEDED", NULL)>>
       /\ (~r.timed_out /\ ~r.budget_exceeded /\ Unanswered(r)) =>
             out.status = "NEEDS_HUMAN"
       /\ (~r.timed_out /\ ~r.budget_exceeded /\ ~Unanswered(r) /\ ~r.success) =>
             out.status = "FAILED" /\ out.error_message = "Execution failed"

\* a result that timed out, exceeded the budget and has unanswered questions
C23_TimeoutBeforeAll ==
    /\ Classified
    /\ calc.r.timed_out /\ calc.r.budget_exceeded /\ Unanswered(calc.r) /\ ~calc.r.success
    /\ calc.out.status = "FAILED" /\ HasFlag("TIMEOUT")

\* C24: for every result that is neither timed out nor budget-exceeded and
\* whose questions_asked is non-empty (and holds a question), classify returns
\* NEEDS_HUMAN with one Question per asked question, in order, whatever the
\* other fields are
C24_QuestionsNeedHuman ==
    (Classified /\ ~calc.r.timed_out /\ ~calc.r.budget_exceeded
                /\ calc.r.questions_asked # <<>>
                /\ Flattened(calc.r.questions_asked) # <<>>) =>
       /\ calc.out.status = "NEEDS_HUMAN"
       /\ calc.out.questions = Flattened(calc.r.questions_asked)

\* C25: for a successful result with no questions (asked, or detected in its
\* text), classify returns NOOP if files_count = 0 and SUCCESS otherwise,
\* with or without an extracted PR URL
C25_NoopOrSuccess ==
    (Classified /\ calc.r.success /\ ~calc.r.timed_out /\ ~calc.r.budget_exceeded
                /\ calc.r.questions_asked = <<>> /\ ~calc.r.stuck) =>
       /\ calc.out.status = (IF calc.d.files_count = 0 THEN "NOOP" ELSE "SUCCESS")
       /\ calc.out.pr_url = calc.r.pr_url

SuccessPath(r, d) ==
    /\ r.success /\ ~r.timed_out /\ ~r.budget_exceeded
    /\ _extract_questions_from_result(r) = <<>>
    /\ ~(d.files_count = 0 /\ r.stuck)

\* C26: on the success path DIFF_SIZE_EXCEEDED:<total_lines> is added exactly
\* when lines_added + lines_deleted > max_diff_lines and FILES_EXCEEDED:<n>
\* exactly when files_count > max_files_touched, nothing at equality, and the
\* status is what it is without the flags
C26_SoftGates ==
    (Classified /\ SuccessPath(calc.r, calc.d)) =>
       LET d == calc.d  out == calc.out  lines == d.lines_added + d.lines_deleted IN
       /\ HasFlag("DIFF_SIZE_EXCEEDED") <=> lines > max_diff_lines
       /\ HasFlag("FILES_EXCEEDED") <=> d.files_count > max_files_touched
       /\ \A i \in DOMAIN out.risk_flags :
             \/ out.risk_flags[i] = Flag("DIFF_SIZE_EXCEEDED", lines)
             \/ out.risk_flags[i] = Flag("FILES_EXCEEDED", d.files_count)
       /\ out.status = (IF calc.r.pr_url \/ d.files_count # 0 THEN "SUCCESS" ELSE "NOOP")

\* 900 added lines across 3 files: SUCCESS with DIFF_SIZE_EXCEEDED:900
C26_LargeDiffSucceeds ==
    /\ Classified /\ SuccessPath(calc.r, calc.d)
    /\ calc.d.lines_added = 900 /\ calc.d.lines_deleted = 0 /\ calc.d.files_count = 3
    /\ calc.out.status = "SUCCESS"
    /\ calc.out.risk_flags = <<Flag("DIFF_SIZE_EXCEEDED", 900)>>

\* C30: the updated input holds for every question i of the call
\* answers[question_text_i] = the answer of the clarification "<tool_id>_<i>",
\* also when two questions have the same text or several calls occur
C30_OwnAnswers ==
    (calc.fn = "answers" /\ Evaluated) =>
       \A i \in DOMAIN calc.questions_list :
          /\ calc.questions_list[i] \in DOMAIN calc.out
          /\ calc.out[calc.questions_list[i]] = calc.answers[<<calc.call, i - 1>>]

\* C30 for calls whose questions differ in their text: every question of the
\* call receives the answer of its own clarification, whatever number the
\* call has in the execution
C30_OwnAnswersDistinctTexts ==
    (calc.fn = "answers" /\ Evaluated
       /\ \A i, k \in DOMAIN calc.questions_list :
             i # k => calc.questions_list[i] # calc.questions_list[k]) =>
       /\ DOMAIN calc.out = { calc.questions_list[i] : i \in DOMAIN calc.questions_list }
       /\ \A i \in DOMAIN calc.questions_list :
             calc.out[calc.questions_list[i]] = calc.answers[<<calc.call, i - 1>>]

\* the second call of an execution, two questions, answered unlike the first
C30_SecondCallAnswered ==
    /\ calc.fn = "answers" /\ Evaluated
    /\ calc.call = 1 /\ calc.questions_list = <<"q1", "q2">>
    /\ calc.answers[<<0, 0>>] = "no" /\ calc.answers[<<0, 1>>] = "yes"
    /\ calc.out["q1"] = "yes" /\ calc.out["q2"] = "no"

\* the call the handler is working on: the last entry of questions_asked
CurrentCall == drv.questions_asked - 1

\* C29: for each ask-user call, the Clarification rows of the call are in the
\* table, committed, before poll_for_answers first reads their answered state:
\* whenever the handler is in its polling loop, every question of its call
\* has its row, and every id poll_for_answers looks up is a row of the table
C29_SavedBeforePolled ==
    (drv.pos = "running" /\ drv.hpc = "polling") =>
       /\ \A i \in 0..(drv.n - 1) : <<CurrentCall, i>> \in QuestionIds(drv.attempt_id)
       /\ drv.created \subseteq DOMAIN clars
       /\ drv.created # {}

\* the handler polls for a call of two questions, none answered yet
C29_PollingTwoQuestions ==
    /\ drv.pos = "running" /\ drv.hpc = "polling" /\ drv.n = 2
    /\ {<<CurrentCall, 0>>, <<CurrentCall, 1>>} \subseteq QuestionIds(drv.attempt_id)
    /\ \A c \in drv.created : ~clars[c].answered

\* the positions of _execute_attempt inside the "async with" of the sandbox
InSandbox(w) ==
    /\ wk[w].pc = "running"
    /\ ex[w].pos \in {"sandbox", "logged_workspace", "executing", "executed",
                      "prompt_saved", "logged_complete"}

\* C27: every directory made by WorkspaceSandbox.create is removed on every
\* exit path (return of the body, exception in the body, failed clone): a
\* directory exists untouched only while its worker is inside the block, and
\* once the block is left rmtree has run on it, its errors ignored
C27_SandboxRemoved ==
    \A w \in Workers :
       /\ ex[w].dir = "created" => InSandbox(w)
       /\ ex[w].pos \in {"raised", "returned"} => ex[w].dir \in Rmtree

\* the body raised after the driver had run, and the directory is gone
C27_RemovedAfterBodyRaised ==
    \E w \in Workers :
       ex[w].pos = "raised" /\ ex[w].outcome # "none" /\ ex[w].dir = "removed"

\* the clone failed, and the directory is gone
C27_RemovedAfterCloneFailed ==
    \E w \in Workers :
       ex[w].pos = "raised" /\ ex[w].outcome = "none" /\ ex[w].dir = "removed"

\* a cancel request that found its attempt PENDING or RUNNING
Cancellable(i) == i \in DOMAIN cancels /\ cancels[i].response \notin {"404", "400"}

\* C21: once cancel_attempt has acted on a PENDING or RUNNING attempt, the
\* attempt is in the cancelled terminal state, with error_message "Cancelled by
\* user", and stays there whatever the workers do afterwards
C21_CancelledStays ==
    \A i \in DOMAIN cancels :
       Cancellable(i) =>
          /\ attempts[cancels[i].attempt_id].status = "ERROR"
          /\ attempts[cancels[i].attempt_id].error_message = CancelledByUser

\* the driver of worker w is running for an attempt a cancel request named
CancelRequested(w) ==
    /\ Executing(w, "executing")
    /\ \E i \in DOMAIN cancels : Cancellable(i) /\ cancels[i].attempt_id = AttemptOf(w)

\* C28: a worker that runs the job of an attempt for which cancel_attempt was
\* called eventually observes the cancellation: its executor's _cancelled is
\* set and the message loop interrupts the driver
C28_CancelObserved ==
    \A w \in Workers : CancelRequested(w) ~> ex[w].cancelled

\* an ExecutionResult as execute builds it: success excludes the timeout and
\* the budget, and an interruption for questions has questions
Buildable(r) ==
    /\ r.success => ~r.timed_out /\ ~r.budget_exceeded
    /\ r.interrupted_for_questions => Flattened(r.questions_asked) # <<>>

\* the runner's taxonomy against the classifier's
SameTaxonomy(member, status) ==
    \/ member = "ERROR" /\ status = "FAILED"
    \/ member = "WAITING" /\ status = "NEEDS_HUMAN"
    \/ member = "COMPLETE" /\ status \in {"SUCCESS", "NOOP"}

\* C31: the status the runner determines for an (ExecutionResult, DiffStats)
\* is the one OutcomeClassifier.classify assigns to the same pair
C31_RunnerAgreesWithClassifier ==
    (calc.fn = "status" /\ Evaluated /\ Buildable(calc.r))
       => SameTaxonomy(calc.out, classify(calc.r, calc.d).status)

\* worker w appends a LOG artifact of its run in this step
LogsArtifact(w) == ex'[w] # ex[w] /\ Len(artifacts') = Len(artifacts) + 1

\* the prompt of the run of worker w is persisted
PromptSaved(w) == ex[w].pos \in {"prompt_saved", "logged_complete"}

\* C32: the prompt, with sequence_num 0, is the first LOG artifact of a run:
\* whenever a run persists any other LOG artifact, its prompt is persisted
\* already
C32_PromptFirst ==
    [][\A w \in Workers :
          LogsArtifact(w) =>
             IF artifacts'[Len(artifacts')].content = "prompt"
             THEN artifacts'[Len(artifacts')].sequence_num = 0
             ELSE PromptSaved(w)]_vars

\* the manual retry endpoint has reset job j in this step
Retried(j) == jobs[j].status \in {FAILED, DEAD} /\ jobs'[j].status = PENDING

\* C33: after the manual retry endpoint the job is PENDING with scheduled_for =
\* now, its lease, completion and error fields are cleared, and claim_job can
\* select it
C33_RetriedEligible ==
    [][\A j \in JobIds :
          Retried(j) =>
             /\ jobs'[j].scheduled_for = now
             /\ jobs'[j].worker_id = NULL
             /\ jobs'[j].claimed_at = NULL
             /\ jobs'[j].heartbeat_at = NULL
             /\ jobs'[j].completed_at = NULL
             /\ jobs'[j].error = NoError
             /\ Eligible(jobs'[j], now, NoFilter)]_vars

\* C35: a CLAIMED or RUNNING job has worker_id, claimed_at and heartbeat_at
\* set, and a PENDING job has all three null, whichever operation put it there
C35_LeaseFields ==
    \A j \in JobIds :
       /\ jobs[j].status \in {CLAIMED, RUNNING} =>
             jobs[j].worker_id # NULL /\ jobs[j].claimed_at # NULL /\ jobs[j].heartbeat_at # NULL
       /\ jobs[j].status = PENDING =>
             jobs[j].worker_id = NULL /\ jobs[j].claimed_at = NULL /\ jobs[j].heartbeat_at = NULL

\* worker w is still processing the job it claimed, which stale recovery has
\* since returned to the queue and another worker has claimed
Superseded(w) ==
    /\ wk[w].pc \in {"claimed", "running", "failing"}
    /\ jobs[wk[w].job].worker_id \notin {NULL, w}

\* C36: a worker whose job is now leased to another worker can no longer
\* affect it: its start_job, complete_job and fail_job leave the job unchanged
C36_SupersededHarmless ==
    [][\A w \in Workers :
          (Superseded(w) /\ wk'[w] # wk[w]) => jobs'[wk[w].job] = jobs[wk[w].job]]_vars

\* worker w goes on from start_job to the handler of its job in this step
EntersHandler(w) == wk[w].pc = "claimed" /\ wk'[w].pc = "running"

FailJobWrites(w, j) ==
    /\ wk[w].pc = "failing" /\ wk[w].job = j
    /\ wk'[w].pc = "idle"
    /\ jobs'[j] # jobs[j]

\* C40: the retry_count of a job never decreases, and no increment is lost:
\* a fail_job that updates the row leaves retry_count one above the value the
\* row had, whatever stale recovery and other workers did since fail_job read it
C40_RetryCountMonotone ==
    [][\A j \in JobIds :
          /\ jobs'[j].retry_count >= jobs[j].retry_count
          /\ \A w \in Workers :
                FailJobWrites(w, j) => jobs'[j].retry_count = jobs[j].retry_count + 1]_vars

\* C34: the answer of a clarification is written once: an answered
\* clarification is never changed again, also when two submissions for it run
\* concurrently
C34_AnswerWrittenOnce ==
    [][\A c \in DOMAIN clars : clars[c].answered => clars'[c] = clars[c]]_vars

\* the handler calls on_questions_asked in this step
SavesQuestions ==
    /\ drv.hpc = "invoked" /\ drv.bidirectional
    /\ drv'.questions_asked = drv.questions_asked + 1

\* C39: on_questions_asked never inserts a Clarification whose (attempt_id,
\* question_id) is in the table already, within one execution and when a job
\* retry executes the same attempt again
C39_NoDuplicateInsert ==
    [][SavesQuestions => ~Duplicate(drv.attempt_id, drv.questions_asked)]_vars

\* C38: db_lock never causes a deadlock: no task waits for the lock while it
\* holds it, the holder is always inside a block that ends, the handler does
\* not hold the lock while it sleeps between polls, and a loop that wants to
\* write a log entry while the handler sleeps finds the lock free
C38_NoDeadlock ==
    /\ \A t \in Tasks : lk[t] \in WantsLock => lk.holder # t
    /\ lk.holder # "none" => lk[lk.holder] \in InsideLock
    /\ lk.handler = "sleep" => lk.holder # "handler"
    /\ (lk.handler = "sleep" /\ lk.loop = "write_log") => lk.holder = "none"

\* the loop writes a log entry while the handler sleeps between two polls
C38_LoopLogsWhileWaiting ==
    /\ lk.handler = "sleep" /\ lk.polls > 0
    /\ lk.loop = "log_callback" /\ lk.holder = "loop"

====
